---- MODULE Spec2Model ----
(***************************************************************************)
(* Model of the monitoring installer (vigneshvrm/mon-prom-grafan):         *)
(*   - src/prometheus/prometheus_manager.py: PrometheusConfigManager       *)
(*     (load_config, save_config, add_scrape_target, remove_scrape_target) *)
(*   - src/web-ui/app.py: install() and run_ansible_playbook()             *)
(*   - src/web-ui/security_utils.py: validation helpers                    *)
(*                                                                         *)
(* Six specifications share the variables:                                 *)
(*   SpecMgr    sequential calls of the configuration manager on one file  *)
(*   SpecBackup the same calls on a few files while the clock advances     *)
(*   Spec       one installation attempt, every request and every failure  *)
(*   SpecRace   two overlapping installation attempts                      *)
(*   SpecReload one installation attempt and a client of reload_prometheus *)
(*   SpecRate   two request threads inside the rate_limit decorator        *)
(***************************************************************************)
EXTENDS Integers, Sequences, FiniteSets, TLC

(***************************************************************************)
(* Bounds of the model.                                                    *)
(***************************************************************************)
\* most static-config blocks of one job of an initial document
MaxBlocks == 2
\* manager calls in one behaviour of SpecMgr
MaxOps == 2
\* candidate locations (of the four the code probes) where the environment puts
\* a result-artifact file
MaxArtifactPaths == 2
\* requests that enter the rate limiter in one behaviour of SpecRate
MaxRequests == 3

JobNames == {"node-exporter", "windows-exporter"}
Targets == {"10.0.0.5:9100", "10.0.0.6:9100"}

VARIABLES
    cfgFile,    \* content of self.config_path (prometheus.yml)
    backups,    \* backup_dir: timestamp of the name -> content
    now,        \* datetime.now() in whole seconds
    lastOp,     \* history: the manager call that ran last, its return value and
                \* the outcome its save_config met
    repeated,   \* history: lastOp and the call before it were add_scrape_target
                \* calls with the same node_info, and save_config failed in neither
    preFile,    \* history: cfgFile as it was when lastOp started (SpecMgr), as it
                \* was initially (Spec, SpecRace)
    ops,        \* history: number of manager calls so far
    faults,     \* whether the environment of the attempts injects I/O failures
    rl,         \* the rate limiter: _rate_limit_store, the locals of the threads
                \* inside decorated_function, and the history of its verdicts
    pc,         \* per request thread: where install() / run_ansible_playbook() is
    req,        \* per request thread: the JSON body of the request
    att,        \* per request thread: the locals of run_ansible_playbook
    response,   \* per request thread: what install() answered
    trace,      \* per request thread, history: what the attempt has done so far
    ansibleCfg, \* whether <monitoring_dir>/ansible.cfg exists
    artifacts   \* candidate location -> content of node_exporter_info.json

fsVars == <<cfgFile, backups, now>>
histVars == <<lastOp, repeated, preFile, ops>>
thVars == <<faults, rl, pc, req, att, response, trace, ansibleCfg, artifacts>>
vars == <<cfgFile, backups, now, lastOp, repeated, preFile, ops,
          faults, rl, pc, req, att, response, trace, ansibleCfg, artifacts>>

(***************************************************************************)
(* Sequences helpers (Python list operations).                             *)
(***************************************************************************)
\* x in seq
InSeq(x, seq) == \E i \in 1..Len(seq) : seq[i] = x

\* index of the first element equal to x, 0 when there is none
FirstIndex(seq, x) ==
    IF InSeq(x, seq)
    THEN CHOOSE i \in 1..Len(seq) : seq[i] = x /\ \A j \in 1..(i-1) : seq[j] # x
    ELSE 0

\* list.remove(x): drops the first element equal to x
ListRemove(seq, x) ==
    LET k == FirstIndex(seq, x)
    IN IF k = 0 THEN seq
       ELSE [i \in 1..(Len(seq)-1) |-> IF i < k THEN seq[i] ELSE seq[i+1]]

(***************************************************************************)
(* Documents and files.                                                    *)
(* A document is the dict yaml.safe_load returns: `global` is "none" when  *)
(* the key is missing, has_sc says whether the key scrape_configs exists.  *)
(* A job is [job_name, scheme, static_configs]; a static-config block is   *)
(* [targets, labels].                                                      *)
(***************************************************************************)
DefaultDoc == [global |-> "default", has_sc |-> TRUE, scrape_configs |-> <<>>]
EmptyDoc == [global |-> "none", has_sc |-> FALSE, scrape_configs |-> <<>>]

NoFile == [kind |-> "none", doc |-> EmptyDoc]
EmptyFile == [kind |-> "empty", doc |-> EmptyDoc]
YamlFile(d) == [kind |-> "yaml", doc |-> d]

FileExists(f) == f.kind # "none"

\* load_config: a default document when the file is missing, {} for an empty file
load_config(f) ==
    IF ~FileExists(f) THEN DefaultDoc
    ELSE IF f.kind = "empty" THEN EmptyDoc
    ELSE f.doc

(***************************************************************************)
(* save_config.  `outcome` is what the file system does:                   *)
(*   ok           backup copied (if the file exists), file rewritten       *)
(*   backup_fail  shutil.copy2 raises: nothing written                     *)
(*   open_fail    backup copied, open(config_path, 'w') raises             *)
(*   dump_fail    backup copied, file truncated by open, yaml.dump raises  *)
(* The result is [file, backups, ret, save]: the file and the backup       *)
(* directory afterwards, the return value, and in `save` the outcome that  *)
(* the call met ("none" in the results of callers that did not call it).   *)
(***************************************************************************)
SaveOutcomes == {"ok", "backup_fail", "open_fail", "dump_fail"}

\* save_config writing the new document first and copying the backup afterwards
save_config_overwrite_first(f, bk, t, doc, outcome) ==
    LET f1 == CASE outcome \in {"ok", "backup_fail"} -> YamlFile(doc)
                [] outcome = "dump_fail" -> EmptyFile
                [] OTHER -> f
        bk1 == IF FileExists(f) /\ outcome = "ok"
               THEN [x \in DOMAIN bk \cup {t} |-> IF x = t THEN f1 ELSE bk[x]]
               ELSE bk
    IN  [file |-> f1, backups |-> bk1,
         ret |-> IF outcome = "ok" THEN "true" ELSE "false", save |-> outcome]

save_config(f, bk, t, doc, outcome) ==
    LET bk1 == IF FileExists(f) /\ outcome # "backup_fail"
               THEN [x \in DOMAIN bk \cup {t} |-> IF x = t THEN f ELSE bk[x]]
               ELSE bk
    IN  CASE outcome = "ok" ->
               [file |-> YamlFile(doc), backups |-> bk1, ret |-> "true", save |-> outcome]
          [] outcome = "dump_fail" ->
               [file |-> EmptyFile, backups |-> bk1, ret |-> "false", save |-> outcome]
          [] OTHER ->
               [file |-> f, backups |-> bk1, ret |-> "false", save |-> outcome]

(***************************************************************************)
(* add_scrape_target.  info is the node_info dict: [job_name, target],     *)
(* target being f"{ip_address}:{port}".                                    *)
(***************************************************************************)
NewJob(info) ==
    [job_name |-> info.job_name,
     scheme |-> "https",
     static_configs |-> << [targets |-> <<info.target>>, labels |-> "node"] >>]

\* JobIndex with the search stopping after the first job
JobIndexFirstOnly(jobs, name) ==
    IF Len(jobs) > 0 /\ jobs[1].job_name = name THEN 1 ELSE 0

\* index of the first job whose job_name is name, 0 when there is none
JobIndex(jobs, name) ==
    IF \E i \in 1..Len(jobs) : jobs[i].job_name = name
    THEN CHOOSE i \in 1..Len(jobs) :
            jobs[i].job_name = name /\ \A j \in 1..(i-1) : jobs[j].job_name # name
    ELSE 0

\* AddTargetDoc rebuilding the matched job from node_info
AddTargetDocRebuildJob(doc, info) ==
    LET jobs == doc.scrape_configs
        i == JobIndex(jobs, info.job_name)
        withKey == [doc EXCEPT !.has_sc = TRUE]
    IN  IF i = 0
        THEN [raised |-> FALSE,
              doc |-> [withKey EXCEPT !.scrape_configs = Append(jobs, NewJob(info))]]
        ELSE IF Len(jobs[i].static_configs) = 0
        THEN [raised |-> TRUE, doc |-> doc]
        ELSE [raised |-> FALSE,
              doc |-> [withKey EXCEPT !.scrape_configs[i] = NewJob(info)]]

\* AddTargetDoc without the test `target not in targets`
AddTargetDocNoCheck(doc, info) ==
    LET jobs == doc.scrape_configs
        i == JobIndex(jobs, info.job_name)
        withKey == [doc EXCEPT !.has_sc = TRUE]
    IN  IF i = 0
        THEN [raised |-> FALSE,
              doc |-> [withKey EXCEPT !.scrape_configs = Append(jobs, NewJob(info))]]
        ELSE IF Len(jobs[i].static_configs) = 0
        THEN [raised |-> TRUE, doc |-> doc]
        ELSE [raised |-> FALSE,
              doc |-> [withKey EXCEPT !.scrape_configs[i].static_configs[1].targets =
                                          Append(@, info.target)]]

\* AddTargetDoc appending to the last block of the job
AddTargetDocLastBlock(doc, info) ==
    LET jobs == doc.scrape_configs
        i == JobIndex(jobs, info.job_name)
        withKey == [doc EXCEPT !.has_sc = TRUE]
    IN  IF i = 0
        THEN [raised |-> FALSE,
              doc |-> [withKey EXCEPT !.scrape_configs = Append(jobs, NewJob(info))]]
        ELSE IF Len(jobs[i].static_configs) = 0
        THEN [raised |-> TRUE, doc |-> doc]
        ELSE IF InSeq(info.target, jobs[i].static_configs[1].targets)
        THEN [raised |-> FALSE, doc |-> withKey]
        ELSE [raised |-> FALSE,
              doc |-> [withKey EXCEPT
                         !.scrape_configs[i].static_configs[Len(jobs[i].static_configs)].targets =
                             Append(@, info.target)]]

\* the in-memory merge of add_scrape_target: [raised, doc]
AddTargetDoc(doc, info) ==
    LET jobs == doc.scrape_configs
        i == JobIndex(jobs, info.job_name)
        withKey == [doc EXCEPT !.has_sc = TRUE]
    IN  IF i = 0
        THEN [raised |-> FALSE,
              doc |-> [withKey EXCEPT !.scrape_configs = Append(jobs, NewJob(info))]]
        ELSE IF Len(jobs[i].static_configs) = 0
        THEN [raised |-> TRUE, doc |-> doc]
        ELSE IF InSeq(info.target, jobs[i].static_configs[1].targets)
        THEN [raised |-> FALSE, doc |-> withKey]
        ELSE [raised |-> FALSE,
              doc |-> [withKey EXCEPT !.scrape_configs[i].static_configs[1].targets =
                                          Append(@, info.target)]]

add_scrape_target(f, bk, t, info, outcome) ==
    LET m == AddTargetDoc(load_config(f), info)
    IN  IF m.raised
        THEN [file |-> f, backups |-> bk, ret |-> "raised", save |-> "none"]
        ELSE save_config(f, bk, t, m.doc, outcome)

(***************************************************************************)
(* remove_scrape_target.  The loop runs over the list it mutates: after    *)
(* scrape_configs.remove(job) the iteration goes on at the next index of   *)
(* the shortened list.                                                     *)
(***************************************************************************)
\* index of the first block of job that holds target, 0 when there is none
BlockIndex(job, target) ==
    IF \E k \in 1..Len(job.static_configs) : InSeq(target, job.static_configs[k].targets)
    THEN CHOOSE k \in 1..Len(job.static_configs) :
            /\ InSeq(target, job.static_configs[k].targets)
            /\ \A j \in 1..(k-1) : ~InSeq(target, job.static_configs[j].targets)
    ELSE 0

RECURSIVE RemoveLoop(_, _, _, _, _)
RemoveLoop(jobs, i, job_name, target, updated) ==
    IF i > Len(jobs) THEN [jobs |-> jobs, updated |-> updated]
    ELSE IF jobs[i].job_name # job_name
    THEN RemoveLoop(jobs, i + 1, job_name, target, updated)
    ELSE LET k == BlockIndex(jobs[i], target)
         IN  IF k = 0 THEN RemoveLoop(jobs, i + 1, job_name, target, updated)
             ELSE LET left == ListRemove(jobs[i].static_configs[k].targets, target)
                      job == [jobs[i] EXCEPT !.static_configs[k].targets = left]
                      jobs1 == [jobs EXCEPT ![i] = job]
                  IN  IF left = <<>>
                      THEN RemoveLoop(ListRemove(jobs1, job), i + 1, job_name, target, TRUE)
                      ELSE RemoveLoop(jobs1, i + 1, job_name, target, TRUE)

\* remove_scrape_target saving the document whether or not the loop changed it
remove_scrape_target_always_saves(f, bk, t, job_name, target, outcome) ==
    LET doc == load_config(f)
    IN  IF ~doc.has_sc THEN [file |-> f, backups |-> bk, ret |-> "false", save |-> "none"]
        ELSE LET r == RemoveLoop(doc.scrape_configs, 1, job_name, target, FALSE)
             IN  save_config(f, bk, t, [doc EXCEPT !.scrape_configs = r.jobs], outcome)

remove_scrape_target(f, bk, t, job_name, target, outcome) ==
    LET doc == load_config(f)
    IN  IF ~doc.has_sc THEN [file |-> f, backups |-> bk, ret |-> "false", save |-> "none"]
        ELSE LET r == RemoveLoop(doc.scrape_configs, 1, job_name, target, FALSE)
             IN  IF r.updated
                 THEN save_config(f, bk, t, [doc EXCEPT !.scrape_configs = r.jobs], outcome)
                 ELSE [file |-> f, backups |-> bk, ret |-> "false", save |-> "none"]

(***************************************************************************)
(* Initial documents: job names unique, every target at most once among    *)
(* the blocks of its job, at most one target in a block.                   *)
(***************************************************************************)
\* sequences without repetition over S, of length 0..n
RECURSIVE DistinctSeqs(_, _)
DistinctSeqs(S, n) ==
    IF n = 0 THEN {<<>>}
    ELSE LET shorter == DistinctSeqs(S, n - 1)
             longer == {Append(s, x) : s \in shorter, x \in S}
         IN  shorter \cup {s \in longer : \A i, j \in 1..Len(s) : i # j => s[i] # s[j]}

SeqRange(s) == {s[i] : i \in 1..Len(s)}

InitBlocks == {[targets |-> ts, labels |-> "static"] : ts \in DistinctSeqs(Targets, 1)}

RECURSIVE BlockSeqs(_)
BlockSeqs(n) ==
    IF n = 0 THEN {<<>>}
    ELSE LET shorter == BlockSeqs(n - 1)
         IN  shorter \cup
             {Append(s, b) : s \in {x \in shorter : Len(x) = n - 1}, b \in InitBlocks}

DisjointBlocks(bs) ==
    \A i, j \in 1..Len(bs) : i # j => SeqRange(bs[i].targets) \cap SeqRange(bs[j].targets) = {}

InitJobs(name) ==
    {[job_name |-> name, scheme |-> "http", static_configs |-> bs] :
        bs \in {x \in BlockSeqs(MaxBlocks) : DisjointBlocks(x)}}

InitJobSeqs ==
    {<<>>}
    \cup {<<j>> : j \in UNION {InitJobs(n) : n \in JobNames}}
    \cup {<<j1, j2>> : j1 \in InitJobs("node-exporter"), j2 \in InitJobs("windows-exporter")}

InitDocs == {[global |-> "custom", has_sc |-> TRUE, scrape_configs |-> js] : js \in InitJobSeqs}

InitFiles == {NoFile} \cup {YamlFile(d) : d \in InitDocs}

(***************************************************************************)
(* Request validation (security_utils.py).  Strings that the code inspects *)
(* character by character are sequences of one-character strings.          *)
(***************************************************************************)
Empty == <<>>
HostIPv4 == <<"1", "0", ".", "0", ".", "0", ".", "5">>
HostIPv6 == <<":", ":", "1">>
HostBlank == <<" ">>
HostBad == <<"a", ";">>
UserAdmin == <<"a", "d", "m", "i", "n">>
UserBad == <<"a", "$">>
SecretPlain == <<"p", "a", "s", "s">>
SecretAt == <<"p", "@", "s", "s">>
SecretQuote == <<"p", " ", "\"", "\\">>
SecretNewline == <<"p", "\n", "x">>

\* the characters of the inputs that [a-zA-Z0-9] matches
AlnumChars == {"0", "1", "5", "a", "d", "i", "m", "n", "p", "s"}
Whitespace == {" "}
\* the inputs that ipaddress.ip_address accepts
IPLiterals == {HostIPv4, HostIPv6}

RECURSIVE LStrip(_)
LStrip(s) == IF s # <<>> /\ Head(s) \in Whitespace THEN LStrip(Tail(s)) ELSE s

RECURSIVE RStrip(_)
RStrip(s) ==
    IF s # <<>> /\ s[Len(s)] \in Whitespace THEN RStrip(SubSeq(s, 1, Len(s) - 1)) ELSE s

\* str.strip()
Strip(s) == RStrip(LStrip(s))

\* Optional[str]: None is [ok |-> FALSE]
None == [ok |-> FALSE, value |-> <<>>]
Some(x) == [ok |-> TRUE, value |-> x]

validate_ip_address(ip) == ip \in IPLiterals

\* re.match(r'^[a-zA-Z0-9]([a-zA-Z0-9\-_\.]*[a-zA-Z0-9])?$', x)
MatchHostname(x) ==
    /\ Len(x) >= 1
    /\ x[1] \in AlnumChars
    /\ x[Len(x)] \in AlnumChars
    /\ \A i \in 1..Len(x) : x[i] \in AlnumChars \cup {"-", "_", "."}

\* re.match(r'^[a-zA-Z0-9@]([a-zA-Z0-9\-_\.@]*[a-zA-Z0-9])?$', x)
MatchUsername(x) ==
    /\ Len(x) >= 1
    /\ x[1] \in AlnumChars \cup {"@"}
    /\ Len(x) > 1 => x[Len(x)] \in AlnumChars
    /\ \A i \in 1..Len(x) : x[i] \in AlnumChars \cup {"-", "_", ".", "@"}

HostMaxLen == 253
UserMaxLen == 255

sanitize_hostname(hostname) ==
    IF hostname = <<>> THEN None
    ELSE LET h == Strip(hostname)
         IN  IF validate_ip_address(h) THEN Some(h)
             ELSE IF Len(h) > HostMaxLen THEN None
             ELSE IF MatchHostname(h) THEN Some(h)
             ELSE None

sanitize_username(username) ==
    IF username = <<>> THEN None
    ELSE LET u == Strip(username)
         IN  IF Len(u) > UserMaxLen \/ Len(u) = 0 THEN None
             ELSE IF MatchUsername(u) THEN Some(u)
             ELSE None

\* str.lower() on the values of the field os
Lower(os) == IF os = "Windows" THEN "windows" ELSE os

\* validate_install_request without the test of the credentials
validate_install_request_no_credentials(data) ==
    IF Lower(data.os) \notin {"linux", "windows", "auto"}
    THEN [ok |-> FALSE, error |-> "Invalid OS. Must be \"linux\", \"windows\", or \"auto\""]
    ELSE IF data.target_host = <<>> THEN [ok |-> TRUE, error |-> ""]
    ELSE IF Strip(data.target_host) = <<>>
    THEN [ok |-> FALSE, error |-> "target_host cannot be empty"]
    ELSE IF ~sanitize_hostname(Strip(data.target_host)).ok
    THEN [ok |-> FALSE, error |-> "Invalid target_host format"]
    ELSE IF data.target_username # <<>> /\ ~sanitize_username(data.target_username).ok
    THEN [ok |-> FALSE, error |-> "Invalid username format"]
    ELSE [ok |-> TRUE, error |-> ""]

validate_install_request(data) ==
    IF Lower(data.os) \notin {"linux", "windows", "auto"}
    THEN [ok |-> FALSE, error |-> "Invalid OS. Must be \"linux\", \"windows\", or \"auto\""]
    ELSE IF data.target_host = <<>> THEN [ok |-> TRUE, error |-> ""]
    ELSE IF Strip(data.target_host) = <<>>
    THEN [ok |-> FALSE, error |-> "target_host cannot be empty"]
    ELSE IF ~sanitize_hostname(Strip(data.target_host)).ok
    THEN [ok |-> FALSE, error |-> "Invalid target_host format"]
    ELSE IF data.target_username = <<>> \/ data.target_password = <<>>
    THEN [ok |-> FALSE,
          error |-> "Target server username and password are required when target host is provided"]
    ELSE IF ~sanitize_username(data.target_username).ok
    THEN [ok |-> FALSE, error |-> "Invalid username format"]
    ELSE [ok |-> TRUE, error |-> ""]

\* create_ansible_config: the extra vars of the playbook
create_ansible_config(data) ==
    [target_os |-> IF Lower(data.os) = "auto" THEN "linux" ELSE Lower(data.os),
     has_host |-> data.target_host # <<>>,
     target_host |-> data.target_host,
     target_username |-> IF data.target_host # <<>> THEN data.target_username ELSE <<>>,
     target_password |-> IF data.target_host # <<>> THEN data.target_password ELSE <<>>]

\* special_chars of escape_ansible_value
SpecialChars == {"=", ":", "[", "]", " ", "\n", "\r", "\t", "\"", "'", "\\"}

\* value.replace('\\', '\\\\').replace('"', '\\"')
RECURSIVE EscapeChars(_)
EscapeChars(value) ==
    IF value = <<>> THEN <<>>
    ELSE (IF Head(value) \in {"\\", "\""} THEN <<"\\", Head(value)>> ELSE <<Head(value)>>)
         \o EscapeChars(Tail(value))

Quoted(value) == <<"\"">> \o value \o <<"\"">>

\* escape_ansible_value quoting every value
escape_ansible_value_always_quoted(value) == Quoted(EscapeChars(value))

\* escape_ansible_value: the value in quotes when it holds a special character
escape_ansible_value(value) ==
    IF \E i \in 1..Len(value) : value[i] \in SpecialChars
    THEN Quoted(EscapeChars(value))
    ELSE value

\* no inventory content
NoInventory ==
    [raised |-> TRUE, group |-> "", host |-> <<>>, user |-> <<>>, password |-> <<>>,
     settings |-> <<>>]

\* create_dynamic_inventory up to the point where the file is written:
\* ValueError for a host or a username that fails sanitization; the password
\* is not tested.  The content is the group, the host, ansible_user,
\* ansible_password and the other settings of the host line
create_dynamic_inventory(target_host, target_username, target_password, os_type) ==
    IF ~sanitize_hostname(target_host).ok THEN NoInventory
    ELSE IF ~sanitize_username(target_username).ok THEN NoInventory
    ELSE LET escaped_password == IF target_password # <<>>
                                 THEN escape_ansible_value(target_password)
                                 ELSE <<"\"", "\"">>
             escaped_host == escape_ansible_value(sanitize_hostname(target_host).value)
             escaped_user == escape_ansible_value(sanitize_username(target_username).value)
         IN  IF Lower(os_type) = "windows"
             THEN [raised |-> FALSE, group |-> "windows",
                   host |-> escaped_host, user |-> escaped_user,
                   password |-> escaped_password,
                   settings |-> [ansible_connection |-> "winrm",
                                 ansible_port |-> "5985",
                                 ansible_winrm_transport |-> "basic",
                                 ansible_winrm_server_cert_validation |-> "ignore",
                                 ansible_become |-> "false",
                                 ansible_winrm_read_timeout_sec |-> "60",
                                 ansible_winrm_operation_timeout_sec |-> "60",
                                 ansible_winrm_connection_timeout |-> "30"]]
             ELSE [raised |-> FALSE, group |-> "linux",
                   host |-> escaped_host, user |-> escaped_user,
                   password |-> escaped_password,
                   settings |-> [ansible_become |-> "true",
                                 ansible_become_pass |-> escaped_password,
                                 ansible_ssh_common_args |->
                                     "-o StrictHostKeyChecking=no -o UserKnownHostsFile=/dev/null -o ConnectTimeout=10"]]

(***************************************************************************)
(* The request threads, install() and run_ansible_playbook() (app.py).     *)
(***************************************************************************)
Threads == {"A", "B"}

\* A temp file with a secret as the number of its bytes and the number of them
\* that are zero bytes.  json.dump(extra_vars, f) writes the braces and the
\* values; the inventory holds the group line and the host line
VarsFileSize(extra_vars) ==
    2 + Len(extra_vars.target_host) + Len(extra_vars.target_username)
      + Len(extra_vars.target_password)
InventorySize(inventory) ==
    2 + Len(inventory.host) + Len(inventory.user) + Len(inventory.password)

\* open(path, 'wb') truncates the file
OpenTruncate(f) == [size |-> 0, zeros |-> 0]
\* os.path.getsize(path)
getsize(f) == f.size
\* f.write(b'\x00' * n) into the file opened with 'wb'
WriteZeros(f, n) == [size |-> n, zeros |-> n]

\* lines 641-657: what the file holds when os.unlink removes it.  The open or
\* the write may raise; the bare except unlinks the file as it is
OverwriteOutcomes == {"ok", "open_fail"}
NotUnlinked == [unlinked |-> FALSE, overwrite |-> "none", size |-> 0, zeros |-> 0]
SecureDelete(size, outcome) ==
    LET written == [size |-> size, zeros |-> 0]
        opened == IF outcome = "open_fail" THEN written ELSE OpenTruncate(written)
        zeroed == IF outcome = "ok" THEN WriteZeros(opened, getsize(opened)) ELSE opened
    IN  [unlinked |-> TRUE, overwrite |-> outcome, size |-> zeroed.size,
         zeros |-> zeroed.zeros]

\* the node_info the installer of a thread's attempt writes about its host
InfoOf(a) ==
    [job_name |-> "node-exporter",
     target |-> IF a = "A" THEN "10.0.0.5:9100" ELSE "10.0.0.6:9100"]

\* content of a candidate file: absent, or one of
\*   valid      a JSON object with the node_info in `info`
\*   empty      the JSON object {}
\*   oversized  more than 1MB
\*   badjson    text that json.load rejects with JSONDecodeError
\*   badutf8    bytes that are no UTF-8: f.read() raises UnicodeDecodeError
Absent == [kind |-> "absent", info |-> InfoOf("A")]
ArtifactContents ==
    {[kind |-> "valid", info |-> InfoOf(a)] : a \in Threads}
    \cup {[kind |-> k, info |-> InfoOf("A")] : k \in {"empty", "oversized", "badjson", "badutf8"}}

\* node_info_paths: the four candidate locations, in the order of the list
NumCandidates == 4
Candidates == 1..NumCandidates

\* the loop over node_info_paths: [node_info, path, read, raised].
\* An oversized file ends the search (break), a JSONDecodeError or IOError goes
\* on with the next candidate (continue), a UnicodeDecodeError is a ValueError
\* that `except (json.JSONDecodeError, IOError)` does not catch.
RECURSIVE FindNodeInfo(_, _, _)
FindNodeInfo(arts, p, read) ==
    IF p > NumCandidates
    THEN [node_info |-> Absent, path |-> 0, read |-> read, raised |-> FALSE]
    ELSE CASE arts[p].kind = "absent" -> FindNodeInfo(arts, p + 1, read)
           [] arts[p].kind = "oversized" ->
                [node_info |-> Absent, path |-> 0, read |-> read, raised |-> FALSE]
           [] arts[p].kind = "badjson" -> FindNodeInfo(arts, p + 1, TRUE)
           [] arts[p].kind = "badutf8" ->
                [node_info |-> Absent, path |-> 0, read |-> TRUE, raised |-> TRUE]
           [] OTHER ->
                [node_info |-> arts[p], path |-> p, read |-> TRUE, raised |-> FALSE]

\* what the POST to the reload endpoint meets: status 200, another status, an
\* exception of requests.post, or `import requests` failing
ReloadOutcomes == {"200", "500", "post_raised", "import_raised"}

\* reload_prometheus posting whether or not an endpoint is configured
reload_prometheus_always_posts(reload_api, outcome) ==
    [posted |-> TRUE, ret |-> outcome = "200", raised |-> FALSE]

\* reload_prometheus: [posted, ret, raised]
reload_prometheus(reload_api, outcome) ==
    IF ~reload_api THEN [posted |-> FALSE, ret |-> FALSE, raised |-> FALSE]
    ELSE IF outcome = "import_raised"
    THEN [posted |-> FALSE, ret |-> FALSE, raised |-> TRUE]
    ELSE [posted |-> TRUE, ret |-> outcome = "200", raised |-> FALSE]

\* `if node_info:` a non-empty dict
Truthy(node_info) == node_info.kind = "valid"

\* the test of line 508 without the return code
ShouldIntegrateAnyExit(returncode, prometheus_config) == prometheus_config

\* the test of line 508 without prometheus_config
ShouldIntegrateAnyRequest(returncode, prometheus_config) == returncode = 0

\* `if result.returncode == 0 and prometheus_config:`
ShouldIntegrate(returncode, prometheus_config) == returncode = 0 /\ prometheus_config

(***************************************************************************)
(* The output of the installer (app.py lines 552-602).  A text is the list *)
(* of its lines, as text.split('\n') gives it; the empty text is <<>>.     *)
(* The tests on a line (keyword, deprecation marker) are membership in the *)
(* sets of the lines that pass them.                                       *)
(***************************************************************************)
LineUnreachable == "fatal: [10.0.0.5]: UNREACHABLE! => {\"unreachable\": true}"
LineUnreachableBare == "10.0.0.5 UNREACHABLE!"
LineTaskFailed == "fatal: [10.0.0.5]: FAILED! => {\"rc\": 1}"
LineDeprecation1 == "[DEPRECATION WARNING]: community.general.yaml is deprecated."
LineDeprecation2 == "Deprecation warnings can be disabled in ansible.cfg."
LineRecap == "PLAY RECAP *********"
LineBlank == ""
LineUnable == "ERROR: Unable to retrieve file contents"
LineIndented == "    msg: error: connection refused"
LineDeprecationError == "[DEPRECATION WARNING]: error: handling changes in 2.19."
LineSpaces == "   "

OutputLines == {LineUnreachable, LineUnreachableBare, LineTaskFailed, LineDeprecation1,
                LineDeprecation2, LineRecap, LineBlank, LineUnable, LineIndented,
                LineDeprecationError, LineSpaces}

\* line.strip()
StripLine(line) ==
    CASE line = LineIndented -> "msg: error: connection refused"
      [] line = LineSpaces -> LineBlank
      [] OTHER -> line

\* any(keyword in line_lower for keyword in
\*     ['fatal:', 'failed:', 'error:', 'unreachable:', 'unable to'])
HasKeyword(line) ==
    line \in {LineUnreachable, LineTaskFailed, LineUnable, LineIndented, LineDeprecationError}
\* 'deprecation' in line.lower()
HasDeprecationLower(line) ==
    line \in {LineDeprecation1, LineDeprecation2, LineDeprecationError}
\* 'DEPRECATION WARNING' in line.upper()
HasDeprecationUpper(line) ==
    line \in {LineDeprecation1, LineDeprecation2, LineDeprecationError}
\* 'error' in line.lower() or 'failed' in line.lower()
HasErrorWord(line) ==
    line \in {LineTaskFailed, LineUnable, LineIndented, LineDeprecationError}

\* the last n elements of seq (seq[-n:])
LastN(seq, n) == IF Len(seq) <= n THEN seq ELSE SubSeq(seq, Len(seq) - n + 1, Len(seq))

\* lines kept for display, and error lines joined into the message
DisplayLines == 50
MaxErrorLines == 3

\* StderrLines filtering whatever the return code is
StderrLinesFiltered(returncode, stderr) ==
    LET Keep(l) == ~HasDeprecationUpper(l) /\ ~HasDeprecationLower(l)
    IN  SelectSeq(stderr, Keep)

\* lines 554-561: stderr_lines, filtered when the playbook succeeded
StderrLines(returncode, stderr) ==
    LET Keep(l) == ~HasDeprecationUpper(l) /\ ~HasDeprecationLower(l)
    IN  IF returncode = 0 THEN SelectSeq(stderr, Keep) ELSE stderr

\* lines 565-572: stderr_display, the lines that '\n' joins
StderrDisplay(returncode, stderr) ==
    LET shown == LastN(StderrLines(returncode, stderr), DisplayLines)
    IN  IF /\ returncode = 0
           /\ \E i \in 1..Len(shown) : HasDeprecationLower(shown[i])
           /\ \A i \in 1..Len(shown) : ~HasErrorWord(shown[i])
        THEN <<>>
        ELSE shown

\* line 564: stdout_display
StdoutDisplay(stdout) == LastN(stdout, DisplayLines)

\* line 579: (stdout or '') + '\n' + (stderr or ''), split at '\n'
OutputLinesOf(stdout, stderr) ==
    (IF stdout = <<>> THEN <<LineBlank>> ELSE stdout)
    \o (IF stderr = <<>> THEN <<LineBlank>> ELSE stderr)

\* lines 594-598: the last non-empty line without a deprecation marker
RECURSIVE LastPlainLine(_)
LastPlainLine(lines) ==
    IF lines = <<>> THEN <<>>
    ELSE LET l == lines[Len(lines)]
         IN  IF StripLine(l) # LineBlank /\ ~HasDeprecationLower(l) THEN <<StripLine(l)>>
             ELSE LastPlainLine(SubSeq(lines, 1, Len(lines) - 1))

\* line 602: the message that names the return code
FallbackMessage(returncode) ==
    "Ansible playbook failed with return code " \o ToString(returncode)

\* ErrorMessage joining the first error lines instead of the last ones
ErrorMessageFirstLines(returncode, stdout, stderr) ==
    IF returncode = 0 THEN <<>>
    ELSE LET lines == OutputLinesOf(stdout, stderr)
             Keep(l) == HasKeyword(l) /\ ~HasDeprecationLower(l)
             kept == SelectSeq(lines, Keep)
             error_lines == [i \in 1..Len(kept) |-> StripLine(kept[i])]
         IN  IF Len(error_lines) > MaxErrorLines THEN SubSeq(error_lines, 1, MaxErrorLines)
             ELSE IF error_lines # <<>> THEN error_lines
             ELSE IF LastPlainLine(lines) # <<>> THEN LastPlainLine(lines)
             ELSE <<FallbackMessage(returncode)>>

\* lines 575-602: error_message as the list of the lines that ' | ' joins;
\* <<>> is None
ErrorMessage(returncode, stdout, stderr) ==
    IF returncode = 0 THEN <<>>
    ELSE LET lines == OutputLinesOf(stdout, stderr)
             Keep(l) == HasKeyword(l) /\ ~HasDeprecationLower(l)
             kept == SelectSeq(lines, Keep)
             error_lines == [i \in 1..Len(kept) |-> StripLine(kept[i])]
         IN  IF error_lines # <<>> THEN LastN(error_lines, MaxErrorLines)
             ELSE IF LastPlainLine(lines) # <<>> THEN LastPlainLine(lines)
             ELSE <<FallbackMessage(returncode)>>

\* what the installer may have printed
NoOutput == [stdout |-> <<>>, stderr |-> <<>>]
Outputs ==
    {NoOutput,
     [stdout |-> <<LineRecap, LineBlank>>, stderr |-> <<>>],
     [stdout |-> <<LineRecap, LineBlank>>, stderr |-> <<LineDeprecation1, LineDeprecation2, LineBlank>>],
     [stdout |-> <<>>, stderr |-> <<LineDeprecation1, LineUnreachable, LineDeprecation2>>],
     [stdout |-> <<>>, stderr |-> <<LineDeprecation1, LineDeprecation2, LineUnreachableBare, LineBlank>>],
     [stdout |-> <<LineTaskFailed, LineRecap>>, stderr |-> <<LineUnreachable, LineDeprecation1>>],
     [stdout |-> <<LineTaskFailed, LineIndented, LineRecap>>,
      stderr |-> <<LineUnreachable, LineDeprecationError, LineUnable, LineSpaces>>],
     [stdout |-> <<LineRecap, LineSpaces>>, stderr |-> <<LineDeprecation1, LineSpaces, LineBlank>>],
     [stdout |-> <<>>, stderr |-> <<LineDeprecationError, LineSpaces>>]}

(***************************************************************************)
(* Responses.  error is a string, NullError stands for None; error_lines   *)
(* holds the lines of a message extracted from the output; stdout and      *)
(* stderr are the displayed lines, stdout_full and stderr_full the output. *)
(***************************************************************************)
NullError == "<None>"
\* lines 574-602 give a non-empty message for every non-zero return code
ExtractedError == "<message extracted from the output>"

NoResponse == [via |-> "none", status |-> 0, success |-> FALSE, returncode |-> 0,
               error |-> NullError, prometheus_updated |-> FALSE,
               error_lines |-> <<>>, stdout |-> <<>>, stderr |-> <<>>,
               stdout_full |-> <<>>, stderr_full |-> <<>>]

\* install(): validate_install_request failed
Rejected(msg) == [NoResponse EXCEPT !.via = "validate", !.status = 400, !.error = msg]

\* install(): run_ansible_playbook raised
HandlerError ==
    [NoResponse EXCEPT !.via = "handler", !.status = 500, !.returncode = -1,
                       !.error = "Installation failed. Please check the logs for details."]

\* the timeout result with the return code of a process that ended
TimeoutResultZero ==
    [NoResponse EXCEPT !.via = "timeout", !.status = 200, !.returncode = 0,
                       !.error = "Installation timed out after 10 minutes."]

\* except subprocess.TimeoutExpired
TimeoutResult ==
    [NoResponse EXCEPT
        !.via = "timeout", !.status = 200, !.returncode = -1,
        !.error = "Installation timed out after 10 minutes. The process may still be running.",
        !.stderr = <<"Timeout: Installation took longer than 10 minutes. Please check the target server manually.">>]

\* except Exception
GenericError ==
    [NoResponse EXCEPT
        !.via = "except", !.status = 200, !.returncode = -1,
        !.error = "Ansible playbook execution failed. Please check the logs for details."]

\* the dict returned at the end of the try block, with an error message
\* extracted whatever the return code is
FinalResultErrorAlways(returncode, prometheus_updated, prometheus_config, output) ==
    [NoResponse EXCEPT
        !.via = "return", !.status = 200, !.success = (returncode = 0),
        !.returncode = returncode,
        !.error = ExtractedError,
        !.error_lines = ErrorMessage(2, output.stdout, output.stderr),
        !.prometheus_updated = prometheus_updated,
        !.stdout = StdoutDisplay(output.stdout),
        !.stderr = StderrDisplay(returncode, output.stderr),
        !.stdout_full = output.stdout,
        !.stderr_full = output.stderr]

\* the dict returned at the end of the try block
FinalResult(returncode, prometheus_updated, prometheus_config, output) ==
    [NoResponse EXCEPT
        !.via = "return", !.status = 200, !.success = (returncode = 0),
        !.returncode = returncode,
        !.error = IF returncode # 0 THEN ExtractedError ELSE NullError,
        !.error_lines = ErrorMessage(returncode, output.stdout, output.stderr),
        !.prometheus_updated = prometheus_updated,
        !.stdout = StdoutDisplay(output.stdout),
        !.stderr = StderrDisplay(returncode, output.stderr),
        !.stdout_full = output.stdout,
        !.stderr_full = output.stderr]

(***************************************************************************)
(* Inputs and the environment.                                             *)
(***************************************************************************)
Requests ==
    [os : {"auto", "Windows", "bsd"},
     target_host : {Empty, HostBlank, HostIPv4, HostIPv6, HostBad},
     target_username : {Empty, UserAdmin, UserBad},
     target_password : {Empty, SecretPlain, SecretAt, SecretQuote, SecretNewline},
     prometheus_enabled : BOOLEAN]

\* the request of a thread when two attempts overlap
RaceRequest(a) ==
    [os |-> "auto",
     target_host |-> IF a = "A" THEN HostIPv4 ELSE HostIPv6,
     target_username |-> UserAdmin,
     target_password |-> SecretPlain,
     prometheus_enabled |-> TRUE]

IoOutcomes == IF faults THEN {"ok", "create_fail", "write_fail"} ELSE {"ok"}
ProcessOutcomes == IF faults THEN {"exit0", "exit2", "timeout"} ELSE {"exit0"}
SaveChoices == IF faults THEN SaveOutcomes ELSE {"ok"}

\* what the installer of thread a leaves in the candidate locations: nothing,
\* or one file
ArtifactWrites(a) ==
    IF faults
    THEN {[path |-> 0, content |-> Absent]}
         \cup [path : 1..MaxArtifactPaths, content : ArtifactContents]
    ELSE {[path |-> 1, content |-> [kind |-> "valid", info |-> InfoOf(a)]]}

NoArtifacts == [p \in Candidates |-> Absent]

\* a job whose static_configs is the empty list
JobWithoutBlocks ==
    [job_name |-> "node-exporter", scheme |-> "http", static_configs |-> <<>>]

AttemptFiles ==
    {NoFile,
     YamlFile([global |-> "custom", has_sc |-> TRUE,
               scrape_configs |-> << NewJob(InfoOf("B")) >>]),
     YamlFile([global |-> "custom", has_sc |-> TRUE,
               scrape_configs |-> << JobWithoutBlocks >>])}

IdleAttempt ==
    [extra_vars |-> create_ansible_config(RaceRequest("A")),
     prometheus_config |-> FALSE,
     reload_api |-> FALSE,          \* prometheus_config has a reload_api
     dynamic_inventory |-> FALSE,   \* the local variable is not None
     inv_file |-> "absent",         \* the temp inventory file
     inventory |-> NoInventory,     \* what was written into it
     vars_file |-> "absent",        \* the temp variables file
     inv_size |-> 0,                \* bytes written into the inventory file
     vars_size |-> 0,               \* bytes written into the variables file
     returncode |-> 0,
     node_info |-> Absent,
     node_info_path |-> 0,
     config |-> EmptyDoc,           \* the document add_scrape_target loaded
     merged |-> EmptyDoc,           \* the document add_scrape_target passes to save_config
     save |-> "none",               \* the outcome its save_config meets
     prometheus_updated |-> FALSE]

NoTrace ==
    [spawned |-> FALSE, inventory_written |-> FALSE, vars_written |-> FALSE,
     cfg_written |-> FALSE, invoke |-> "none",
     artifact_read |-> FALSE, add_called |-> FALSE, save_called |-> FALSE,
     saved |-> FALSE, reload_called |-> FALSE, reload_posted |-> FALSE,
     reload |-> "none", integration |-> "none",
     vars_unlinked |-> NotUnlinked, inv_unlinked |-> NotUnlinked]

\* the backup directory with no file in it
NoBackups == [t \in {} |-> NoFile]

NoOp ==
    [op |-> "none", job_name |-> "", target |-> "", ret |-> "", save |-> "none",
     reload_api |-> FALSE, posted |-> FALSE]

(***************************************************************************)
(* The rate_limit decorator (app.py).  Times are whole seconds.            *)
(***************************************************************************)
rate_limit_window == 60
rate_limit_max_requests == 100

\* request.remote_addr
Clients == {"10.1.1.1", "10.1.1.2"}

\* the timestamps of times that are younger than the window at current_time
Young(times, current_time) ==
    LET Keep(req_time) == current_time - req_time < rate_limit_window
    IN  SelectSeq(times, Keep)

IdleThread == [pc |-> "idle", client_ip |-> "", current_time |-> 0, kept |-> <<>>]
NoVerdict == [status |-> 0, client_ip |-> "", young |-> 0]

\* store: _rate_limit_store, known: its keys; admitted: history of the requests
\* that were let through; verdict: history, the last answer to each thread with
\* the number of admitted requests of the client that were young when it fell
IdleLimiter ==
    [store |-> [c \in Clients |-> <<>>], known |-> {},
     admitted |-> [c \in Clients |-> <<>>],
     th |-> [a \in Threads |-> IdleThread],
     verdict |-> [a \in Threads |-> NoVerdict]]

(***************************************************************************)
(* SpecMgr: one client calls the manager, one call after the other.       *)
(***************************************************************************)
InitMgr ==
    /\ cfgFile \in InitFiles
    /\ backups = NoBackups
    /\ now = 0
    /\ lastOp = NoOp
    /\ repeated = FALSE
    /\ preFile = cfgFile
    /\ ops = 0
    /\ faults = TRUE
    /\ rl = IdleLimiter
    /\ pc = [a \in Threads |-> "off"]
    /\ req = [a \in Threads |-> RaceRequest(a)]
    /\ att = [a \in Threads |-> IdleAttempt]
    /\ response = [a \in Threads |-> NoResponse]
    /\ trace = [a \in Threads |-> NoTrace]
    /\ ansibleCfg = FALSE
    /\ artifacts = NoArtifacts

MgrAdd ==
    \E info \in [job_name : JobNames, target : Targets], outcome \in SaveOutcomes :
        LET r == add_scrape_target(cfgFile, backups, now, info, outcome)
        IN  /\ ops < MaxOps
            /\ ops' = ops + 1
            /\ outcome = "backup_fail" => FileExists(cfgFile)
            /\ cfgFile' = r.file
            /\ backups' = r.backups
            /\ preFile' = cfgFile
            /\ repeated' = (/\ lastOp.op = "add" /\ lastOp.ret # "false"
                             /\ lastOp.job_name = info.job_name
                             /\ lastOp.target = info.target
                             /\ r.ret # "false")
            /\ lastOp' = [op |-> "add", job_name |-> info.job_name,
                          target |-> info.target, ret |-> r.ret, save |-> r.save,
                          reload_api |-> FALSE, posted |-> FALSE]
            /\ UNCHANGED <<now, thVars>>

MgrRemove ==
    \E job_name \in JobNames, target \in Targets, outcome \in SaveOutcomes :
        LET r == remove_scrape_target(cfgFile, backups, now, job_name, target, outcome)
        IN  /\ ops < MaxOps
            /\ ops' = ops + 1
            /\ outcome = "backup_fail" => FileExists(cfgFile)
            /\ cfgFile' = r.file
            /\ backups' = r.backups
            /\ preFile' = cfgFile
            /\ repeated' = FALSE
            /\ lastOp' = [op |-> "remove", job_name |-> job_name,
                          target |-> target, ret |-> r.ret, save |-> r.save,
                          reload_api |-> FALSE, posted |-> FALSE]
            /\ UNCHANGED <<now, thVars>>

NextMgr == MgrAdd \/ MgrRemove

SpecMgr == InitMgr /\ [][NextMgr]_vars

(***************************************************************************)
(* SpecBackup: the calls of the manager on a few files while time passes.  *)
(* In SpecMgr all calls read the clock within one second; here a second    *)
(* may pass between two calls.                                             *)
(***************************************************************************)
\* datetime.now() moves on to the next second; one tick between two calls is
\* enough to tell the names of their backups apart
Tick ==
    /\ now < ops
    /\ now' = now + 1
    /\ UNCHANGED <<cfgFile, backups, histVars, thVars>>

InitBackup ==
    /\ cfgFile \in AttemptFiles
    /\ backups = NoBackups
    /\ now = 0
    /\ lastOp = NoOp
    /\ repeated = FALSE
    /\ preFile = cfgFile
    /\ ops = 0
    /\ faults = TRUE
    /\ rl = IdleLimiter
    /\ pc = [a \in Threads |-> "off"]
    /\ req = [a \in Threads |-> RaceRequest(a)]
    /\ att = [a \in Threads |-> IdleAttempt]
    /\ response = [a \in Threads |-> NoResponse]
    /\ trace = [a \in Threads |-> NoTrace]
    /\ ansibleCfg = FALSE
    /\ artifacts = NoArtifacts

NextBackup == MgrAdd \/ MgrRemove \/ Tick

SpecBackup == InitBackup /\ [][NextBackup]_vars

(***************************************************************************)
(* Spec: one request thread, every request, every failure of the           *)
(* environment.  SpecRace: two overlapping attempts with a target host and *)
(* config integration, in an environment without failures.                 *)
(***************************************************************************)
ReturnCode(outcome) == IF outcome = "exit0" THEN 0 ELSE 2

\* install() up to the call of run_ansible_playbook
Receive(a) ==
    /\ pc[a] = "idle"
    /\ LET v == validate_install_request(req[a])
       IN  IF ~v.ok
           THEN /\ response' = [response EXCEPT ![a] = Rejected(v.error)]
                /\ pc' = [pc EXCEPT ![a] = "done"]
                /\ UNCHANGED att
           ELSE /\ att' = [att EXCEPT ![a].extra_vars = create_ansible_config(req[a]),
                                      ![a].prometheus_config = req[a].prometheus_enabled,
                                      ![a].reload_api = req[a].prometheus_enabled]
                /\ pc' = [pc EXCEPT ![a] = "inventory"]
                /\ UNCHANGED response
    /\ UNCHANGED <<fsVars, histVars, faults, rl, req, trace, ansibleCfg, artifacts>>

\* lines 357-371: the dynamic inventory; an exception leaves run_ansible_playbook
\* before the try block and install() answers 500
BuildInventory(a) ==
    /\ pc[a] = "inventory"
    /\ \E outcome \in IoOutcomes :
        LET ev == att[a].extra_vars
            r == create_dynamic_inventory(ev.target_host, ev.target_username,
                                          ev.target_password, ev.target_os)
        IN  IF ~ev.has_host
            THEN /\ pc' = [pc EXCEPT ![a] = "vars"]
                 /\ UNCHANGED <<att, response, trace>>
            ELSE IF r.raised \/ outcome = "create_fail"
            THEN /\ response' = [response EXCEPT ![a] = HandlerError]
                 /\ pc' = [pc EXCEPT ![a] = "done"]
                 /\ UNCHANGED <<att, trace>>
            ELSE IF outcome = "write_fail"
            THEN /\ att' = [att EXCEPT ![a].inv_file = "present"]
                 /\ trace' = [trace EXCEPT ![a].inventory_written = TRUE]
                 /\ response' = [response EXCEPT ![a] = HandlerError]
                 /\ pc' = [pc EXCEPT ![a] = "done"]
            ELSE /\ att' = [att EXCEPT ![a].inv_file = "present",
                                       ![a].inventory = r,
                                       ![a].inv_size = InventorySize(r),
                                       ![a].dynamic_inventory = TRUE]
                 /\ trace' = [trace EXCEPT ![a].inventory_written = TRUE]
                 /\ pc' = [pc EXCEPT ![a] = "vars"]
                 /\ UNCHANGED response
    /\ UNCHANGED <<fsVars, histVars, faults, rl, req, ansibleCfg, artifacts>>

\* lines 377-383: the variables file, written before the try block
WriteVars(a) ==
    /\ pc[a] = "vars"
    /\ \E outcome \in IoOutcomes :
        CASE outcome = "ok" ->
               /\ att' = [att EXCEPT ![a].vars_file = "present",
                                     ![a].vars_size = VarsFileSize(att[a].extra_vars)]
               /\ trace' = [trace EXCEPT ![a].vars_written = TRUE]
               /\ pc' = [pc EXCEPT ![a] = "cfg"]
               /\ UNCHANGED response
          [] outcome = "create_fail" ->
               /\ response' = [response EXCEPT ![a] = HandlerError]
               /\ pc' = [pc EXCEPT ![a] = "done"]
               /\ UNCHANGED <<att, trace>>
          [] OTHER ->
               /\ att' = [att EXCEPT ![a].vars_file = "present"]
               /\ trace' = [trace EXCEPT ![a].vars_written = TRUE]
               /\ response' = [response EXCEPT ![a] = HandlerError]
               /\ pc' = [pc EXCEPT ![a] = "done"]
    /\ UNCHANGED <<fsVars, histVars, faults, rl, req, ansibleCfg, artifacts>>

\* lines 386-409: ansible.cfg in the project directory, inside the try block
WriteAnsibleCfg(a) ==
    /\ pc[a] = "cfg"
    /\ \E outcome \in IoOutcomes :
        IF outcome = "ok"
        THEN /\ ansibleCfg' = TRUE
             /\ trace' = [trace EXCEPT ![a].cfg_written = TRUE]
             /\ pc' = [pc EXCEPT ![a] = "find"]
             /\ UNCHANGED response
        ELSE /\ response' = [response EXCEPT ![a] = GenericError]
             /\ pc' = [pc EXCEPT ![a] = "cleanup"]
             /\ UNCHANGED <<ansibleCfg, trace>>
    /\ UNCHANGED <<fsVars, histVars, faults, rl, req, att, artifacts>>

\* lines 411-447: the search for ansible-playbook
FindInstaller(a) ==
    /\ pc[a] = "find"
    /\ \E found \in (IF faults THEN BOOLEAN ELSE {TRUE}) :
        IF found
        THEN /\ pc' = [pc EXCEPT ![a] = "spawn"]
             /\ UNCHANGED <<response, trace>>
        ELSE /\ response' = [response EXCEPT ![a] = GenericError]
             /\ trace' = [trace EXCEPT ![a].invoke = "not_found"]
             /\ pc' = [pc EXCEPT ![a] = "cleanup"]
    /\ UNCHANGED <<fsVars, histVars, faults, rl, req, att, ansibleCfg, artifacts>>

\* line 477: subprocess.run starts the installer, or raises OSError
Spawn(a) ==
    /\ pc[a] = "spawn"
    /\ \E started \in (IF faults THEN BOOLEAN ELSE {TRUE}) :
        IF started
        THEN /\ trace' = [trace EXCEPT ![a].spawned = TRUE]
             /\ pc' = [pc EXCEPT ![a] = "running"]
             /\ UNCHANGED response
        ELSE /\ response' = [response EXCEPT ![a] = GenericError]
             /\ trace' = [trace EXCEPT ![a].invoke = "oserror"]
             /\ pc' = [pc EXCEPT ![a] = "cleanup"]
    /\ UNCHANGED <<fsVars, histVars, faults, rl, req, att, ansibleCfg, artifacts>>

\* lines 477-508: the installer ends or the deadline passes; after an exit
\* ansible.cfg is unlinked and line 508 decides about the config integration
ProcessEnd(a) ==
    /\ pc[a] = "running"
    /\ \E outcome \in ProcessOutcomes, w \in ArtifactWrites(a) :
        /\ artifacts' = IF w.path = 0 THEN artifacts
                        ELSE [artifacts EXCEPT ![w.path] = w.content]
        /\ trace' = [trace EXCEPT ![a].invoke = outcome]
        /\ IF outcome = "timeout"
           THEN /\ response' = [response EXCEPT ![a] = TimeoutResult]
                /\ pc' = [pc EXCEPT ![a] = "cleanup"]
                /\ UNCHANGED <<att, ansibleCfg>>
           ELSE /\ att' = [att EXCEPT ![a].returncode = ReturnCode(outcome)]
                /\ ansibleCfg' = FALSE
                /\ pc' = [pc EXCEPT ![a] =
                            IF ShouldIntegrate(ReturnCode(outcome), att[a].prometheus_config)
                            THEN "search" ELSE "finish"]
                /\ UNCHANGED response
    /\ UNCHANGED <<fsVars, histVars, faults, rl, req>>

\* lines 510-535: the loop over node_info_paths
SearchArtifacts(a) ==
    /\ pc[a] = "search"
    /\ LET r == FindNodeInfo(artifacts, 1, FALSE)
       IN  IF r.raised
           THEN /\ response' = [response EXCEPT ![a] = GenericError]
                /\ trace' = [trace EXCEPT ![a].artifact_read = r.read,
                                          ![a].integration = "read_raised"]
                /\ pc' = [pc EXCEPT ![a] = "cleanup"]
                /\ UNCHANGED att
           ELSE /\ att' = [att EXCEPT ![a].node_info = r.node_info,
                                      ![a].node_info_path = r.path]
                /\ trace' = [trace EXCEPT ![a].artifact_read = r.read,
                                          ![a].integration =
                                              IF Truthy(r.node_info) THEN "found"
                                              ELSE "no_artifact"]
                /\ pc' = [pc EXCEPT ![a] = IF Truthy(r.node_info) THEN "load" ELSE "finish"]
                /\ UNCHANGED response
    /\ UNCHANGED <<fsVars, histVars, faults, rl, req, ansibleCfg, artifacts>>

\* add_scrape_target, line 89: config = self.load_config()
UpsertLoad(a) ==
    /\ pc[a] = "load"
    /\ att' = [att EXCEPT ![a].config = load_config(cfgFile)]
    /\ trace' = [trace EXCEPT ![a].add_called = TRUE]
    /\ pc' = [pc EXCEPT ![a] = "save"]
    /\ UNCHANGED <<fsVars, histVars, faults, rl, req, response, ansibleCfg, artifacts>>

\* add_scrape_target, lines 91-138 and save_config up to
\* open(self.config_path, 'w'): the merge, the backup copy, and the open that
\* truncates the file.  app.py lines 542-550: an exception of the manager is
\* logged, a false result leaves prometheus_updated false
UpsertSave(a) ==
    /\ pc[a] = "save"
    /\ \E outcome \in SaveChoices :
        LET m == AddTargetDoc(att[a].config, att[a].node_info.info)
            r == save_config(cfgFile, backups, now, m.doc, outcome)
        IN  /\ outcome = "backup_fail" => FileExists(cfgFile)
            /\ IF m.raised
               THEN /\ trace' = [trace EXCEPT ![a].integration = "add_raised"]
                    /\ pc' = [pc EXCEPT ![a] = "finish"]
                    /\ UNCHANGED <<att, cfgFile, backups>>
               ELSE IF outcome \in {"backup_fail", "open_fail"}
               THEN /\ cfgFile' = r.file
                    /\ backups' = r.backups
                    /\ att' = [att EXCEPT ![a].merged = m.doc, ![a].save = outcome]
                    /\ trace' = [trace EXCEPT ![a].save_called = TRUE,
                                              ![a].integration = "save_false"]
                    /\ pc' = [pc EXCEPT ![a] = "finish"]
               ELSE /\ cfgFile' = EmptyFile
                    /\ backups' = r.backups
                    /\ att' = [att EXCEPT ![a].merged = m.doc, ![a].save = outcome]
                    /\ trace' = [trace EXCEPT ![a].save_called = TRUE]
                    /\ pc' = [pc EXCEPT ![a] = "dump"]
    /\ UNCHANGED <<now, histVars, faults, rl, req, response, ansibleCfg, artifacts>>

\* save_config, line 67: yaml.dump writes the document into the opened file, or
\* raises and leaves what the file holds; app.py line 543: prometheus_updated
UpsertDump(a) ==
    /\ pc[a] = "dump"
    /\ LET ok == att[a].save = "ok"
       IN  /\ cfgFile' = IF ok THEN YamlFile(att[a].merged) ELSE cfgFile
           /\ att' = [att EXCEPT ![a].prometheus_updated = ok]
           /\ trace' = [trace EXCEPT ![a].saved = ok,
                                     ![a].integration = IF ok THEN "updated" ELSE "save_false"]
           /\ pc' = [pc EXCEPT ![a] = IF ok THEN "reload" ELSE "finish"]
    /\ UNCHANGED <<backups, now, histVars, faults, rl, req, response, ansibleCfg, artifacts>>

\* lines 546-550: reload_prometheus when prometheus_config has a reload_api;
\* its result is not used and its exception is logged
Reload(a) ==
    /\ pc[a] = "reload"
    /\ \E outcome \in (IF faults THEN ReloadOutcomes ELSE {"200"}) :
        LET r == reload_prometheus(att[a].reload_api, outcome)
        IN  trace' = IF att[a].reload_api
                     THEN [trace EXCEPT ![a].reload_called = TRUE,
                                        ![a].reload_posted = r.posted,
                                        ![a].reload = outcome]
                     ELSE trace
    /\ pc' = [pc EXCEPT ![a] = "finish"]
    /\ UNCHANGED <<fsVars, histVars, faults, rl, req, att, response, ansibleCfg, artifacts>>

\* lines 552-614: the result of an attempt whose installer ended
Finish(a) ==
    /\ pc[a] = "finish"
    /\ \E output \in (IF faults THEN Outputs ELSE {NoOutput}) :
          response' = [response EXCEPT ![a] =
                          FinalResult(att[a].returncode, att[a].prometheus_updated,
                                      att[a].prometheus_config, output)]
    /\ pc' = [pc EXCEPT ![a] = "cleanup"]
    /\ UNCHANGED <<fsVars, histVars, faults, rl, req, att, trace, ansibleCfg, artifacts>>

\* lines 638-660: the finally block
Cleanup(a) ==
    /\ pc[a] = "cleanup"
    /\ att' = [att EXCEPT ![a].vars_file = "absent",
                          ![a].inv_file = IF att[a].dynamic_inventory THEN "absent" ELSE @]
    /\ \E ov, oi \in (IF faults THEN OverwriteOutcomes ELSE {"ok"}) :
          trace' = [trace EXCEPT
                      ![a].vars_unlinked = SecureDelete(att[a].vars_size, ov),
                      ![a].inv_unlinked = IF att[a].dynamic_inventory
                                          THEN SecureDelete(att[a].inv_size, oi)
                                          ELSE @]
    /\ artifacts' = IF att[a].node_info_path # 0
                    THEN [artifacts EXCEPT ![att[a].node_info_path] = Absent]
                    ELSE artifacts
    /\ pc' = [pc EXCEPT ![a] = "done"]
    /\ UNCHANGED <<fsVars, histVars, faults, rl, req, response, ansibleCfg>>

Step(a) ==
    \/ Receive(a)
    \/ BuildInventory(a)
    \/ WriteVars(a)
    \/ WriteAnsibleCfg(a)
    \/ FindInstaller(a)
    \/ Spawn(a)
    \/ ProcessEnd(a)
    \/ SearchArtifacts(a)
    \/ UpsertLoad(a)
    \/ UpsertSave(a)
    \/ UpsertDump(a)
    \/ Reload(a)
    \/ Finish(a)
    \/ Cleanup(a)

Next == \E a \in Threads : Step(a)

\* the history of SpecMgr, which the attempts leave alone; preFile keeps the
\* config file as it was before the first request
IdleHistory ==
    /\ lastOp = NoOp
    /\ repeated = FALSE
    /\ preFile = cfgFile
    /\ ops = 0

Init ==
    /\ faults = TRUE
    /\ rl = IdleLimiter
    /\ cfgFile \in AttemptFiles
    /\ backups = NoBackups
    /\ now = 0
    /\ IdleHistory
    /\ pc = [a \in Threads |-> IF a = "A" THEN "idle" ELSE "off"]
    /\ req \in {r \in [Threads -> Requests] : r["B"] = RaceRequest("B")}
    /\ att = [a \in Threads |-> IdleAttempt]
    /\ response = [a \in Threads |-> NoResponse]
    /\ trace = [a \in Threads |-> NoTrace]
    /\ ansibleCfg = FALSE
    /\ artifacts \in {NoArtifacts} \cup
                     {[NoArtifacts EXCEPT ![1] = c] : c \in ArtifactContents}

Spec == Init /\ [][Next]_vars

InitRace ==
    /\ faults = FALSE
    /\ rl = IdleLimiter
    /\ cfgFile = NoFile
    /\ backups = NoBackups
    /\ now = 0
    /\ IdleHistory
    /\ pc = [a \in Threads |-> "idle"]
    /\ req = [a \in Threads |-> RaceRequest(a)]
    /\ att = [a \in Threads |-> IdleAttempt]
    /\ response = [a \in Threads |-> NoResponse]
    /\ trace = [a \in Threads |-> NoTrace]
    /\ ansibleCfg = FALSE
    /\ artifacts = NoArtifacts

SpecRace == InitRace /\ [][Next]_vars

(***************************************************************************)
(* SpecReload: one attempt with a target host, with or without config      *)
(* integration, in an environment with failures, next to a client that     *)
(* calls reload_prometheus of managers built with and without an endpoint. *)
(***************************************************************************)
MgrReload ==
    \E reload_api \in BOOLEAN, outcome \in ReloadOutcomes :
        LET r == reload_prometheus(reload_api, outcome)
        IN  /\ ops < MaxOps
            /\ ops' = ops + 1
            /\ lastOp' = [NoOp EXCEPT !.op = "reload",
                                      !.ret = IF r.raised THEN "raised"
                                              ELSE IF r.ret THEN "true" ELSE "false",
                                      !.reload_api = reload_api,
                                      !.posted = r.posted]
            /\ UNCHANGED <<fsVars, repeated, preFile, thVars>>

NextReload == Next \/ MgrReload

InitReload ==
    /\ faults = TRUE
    /\ rl = IdleLimiter
    /\ cfgFile \in AttemptFiles
    /\ backups = NoBackups
    /\ now = 0
    /\ IdleHistory
    /\ pc = [a \in Threads |-> IF a = "A" THEN "idle" ELSE "off"]
    /\ req \in {r \in [Threads -> Requests] :
                  /\ r["B"] = RaceRequest("B")
                  /\ \E e \in BOOLEAN :
                        r["A"] = [RaceRequest("A") EXCEPT !.prometheus_enabled = e]}
    /\ att = [a \in Threads |-> IdleAttempt]
    /\ response = [a \in Threads |-> NoResponse]
    /\ trace = [a \in Threads |-> NoTrace]
    /\ ansibleCfg = FALSE
    /\ artifacts \in {NoArtifacts} \cup
                     {[NoArtifacts EXCEPT ![1] = c] : c \in ArtifactContents}

SpecReload == InitReload /\ [][NextReload]_vars

(***************************************************************************)
(* SpecRate: two threads serve requests of two clients and run             *)
(* decorated_function step by step; a client has sent no request, 99 or    *)
(* 100 requests in second 0.                                               *)
(***************************************************************************)
\* lines 69-70 and the read of lines 73-77: the clock, and the entries of the
\* client that are younger than the window
RlEnter(a) ==
    /\ rl.th[a].pc = "idle"
    /\ ops < MaxRequests
    /\ ops' = ops + 1
    /\ \E c \in Clients :
          rl' = [rl EXCEPT
                   !.th[a] = [pc |-> "clean", client_ip |-> c, current_time |-> now,
                              kept |-> IF c \in rl.known THEN Young(rl.store[c], now)
                                       ELSE <<>>]]
    /\ UNCHANGED <<fsVars, lastOp, repeated, preFile, faults, pc, req, att, response,
                   trace, ansibleCfg, artifacts>>

\* lines 74 and 79: the assignment of the cleaned list, or of [] for a new client
RlClean(a) ==
    /\ rl.th[a].pc = "clean"
    /\ rl' = [rl EXCEPT !.store[rl.th[a].client_ip] = rl.th[a].kept,
                        !.known = @ \cup {rl.th[a].client_ip},
                        !.th[a].pc = "check"]
    /\ UNCHANGED <<fsVars, histVars, faults, pc, req, att, response, trace, ansibleCfg,
                   artifacts>>

\* lines 82-87: the test of the limit and the 429 answer
RlCheck(a) ==
    /\ rl.th[a].pc = "check"
    /\ LET c == rl.th[a].client_ip
       IN  IF Len(rl.store[c]) >= rate_limit_max_requests
           THEN rl' = [rl EXCEPT
                         !.th[a] = IdleThread,
                         !.verdict[a] =
                             [status |-> 429, client_ip |-> c,
                              young |-> Len(Young(rl.admitted[c], rl.th[a].current_time))]]
           ELSE rl' = [rl EXCEPT !.th[a].pc = "append"]
    /\ UNCHANGED <<fsVars, histVars, faults, pc, req, att, response, trace, ansibleCfg,
                   artifacts>>

\* lines 90-92: the request is recorded and handed to the view function
RlAppend(a) ==
    /\ rl.th[a].pc = "append"
    /\ LET c == rl.th[a].client_ip
           t == rl.th[a].current_time
       IN  rl' = [rl EXCEPT
                    !.store[c] = Append(@, t),
                    !.admitted[c] = Append(@, t),
                    !.th[a] = IdleThread,
                    !.verdict[a] =
                        [status |-> 200, client_ip |-> c,
                         young |-> Len(Young(rl.admitted[c], t))]]
    /\ UNCHANGED <<fsVars, histVars, faults, pc, req, att, response, trace, ansibleCfg,
                   artifacts>>

\* the clock reaches the last second of the window that began at 0, then the
\* first second after it
RlTick ==
    /\ now < rate_limit_window
    /\ now' = IF now = 0 THEN rate_limit_window - 1 ELSE rate_limit_window
    /\ UNCHANGED <<cfgFile, backups, histVars, thVars>>

NextRate ==
    \/ \E a \in Threads : RlEnter(a) \/ RlClean(a) \/ RlCheck(a) \/ RlAppend(a)
    \/ RlTick

InitRate ==
    /\ \E n \in [Clients -> {0, rate_limit_max_requests - 1, rate_limit_max_requests}] :
          rl = [IdleLimiter EXCEPT
                  !.store = [c \in Clients |-> [i \in 1..n[c] |-> 0]],
                  !.admitted = [c \in Clients |-> [i \in 1..n[c] |-> 0]],
                  !.known = {c \in Clients : n[c] > 0}]
    /\ faults = FALSE
    /\ cfgFile = NoFile
    /\ backups = NoBackups
    /\ now = 0
    /\ IdleHistory
    /\ pc = [a \in Threads |-> "off"]
    /\ req = [a \in Threads |-> RaceRequest(a)]
    /\ att = [a \in Threads |-> IdleAttempt]
    /\ response = [a \in Threads |-> NoResponse]
    /\ trace = [a \in Threads |-> NoTrace]
    /\ ansibleCfg = FALSE
    /\ artifacts = NoArtifacts

SpecRate == InitRate /\ [][NextRate]_vars

(***************************************************************************)
(* Claims about the configuration manager (SpecMgr).                       *)
(***************************************************************************)
\* the jobs of the document a reader of the file gets
Jobs(f) == load_config(f).scrape_configs

\* number of blocks of job that hold target
BlocksHolding(job, target) ==
    Cardinality({k \in 1..Len(job.static_configs) : InSeq(target, job.static_configs[k].targets)})

\* number of positions of seq that hold x
Occurrences(seq, x) == Cardinality({i \in 1..Len(seq) : seq[i] = x})

\* C8: upsert is idempotent. When add_scrape_target is called twice in a row
\* with the same node_info and save_config fails in neither call, the document
\* after the second call equals the document after the first call.
C8_UpsertIdempotent == repeated => cfgFile = preFile

\* C8 witness: a second add_scrape_target of the same node_info has returned
\* true and the target is in the first block of the named job.
C8_Witness ==
    /\ repeated
    /\ lastOp.ret = "true"
    /\ \E i \in 1..Len(Jobs(cfgFile)) :
          /\ Jobs(cfgFile)[i].job_name = lastOp.job_name
          /\ InSeq(lastOp.target, Jobs(cfgFile)[i].static_configs[1].targets)

\* C9: job names stay unique. From a document in which every job_name occurs
\* once (or from an absent file), after any sequence of add_scrape_target and
\* remove_scrape_target calls no two entries of scrape_configs have the same
\* job_name.
C9_JobNamesUnique ==
    \A i, j \in 1..Len(Jobs(cfgFile)) :
        i # j => Jobs(cfgFile)[i].job_name # Jobs(cfgFile)[j].job_name

\* C9 witness: after an earlier call, add_scrape_target has appended a second
\* job to a document that held one job.
C9_Witness ==
    /\ ops >= 2
    /\ lastOp.op = "add"
    /\ lastOp.ret = "true"
    /\ Len(Jobs(preFile)) = 1
    /\ Len(Jobs(cfgFile)) = 2

\* C10: from a document in which every "host:port" string occurs at most once
\* among all static-config blocks of its job, after any sequence of
\* add_scrape_target and remove_scrape_target calls every such string still
\* occurs at most once among all static-config blocks of its job.
C10_TargetOncePerJob ==
    \A i \in 1..Len(Jobs(cfgFile)) : \A t \in Targets :
        /\ BlocksHolding(Jobs(cfgFile)[i], t) <= 1
        /\ \A k \in 1..Len(Jobs(cfgFile)[i].static_configs) :
              Occurrences(Jobs(cfgFile)[i].static_configs[k].targets, t) <= 1

\* the job names of the document a reader of f gets
JobNamesOf(f) == {Jobs(f)[i].job_name : i \in 1..Len(Jobs(f))}

\* the targets that the jobs named name hold in any of their blocks
TargetsOfJob(f, name) ==
    {t \in Targets : \E i \in 1..Len(Jobs(f)) :
        Jobs(f)[i].job_name = name /\ BlocksHolding(Jobs(f)[i], t) >= 1}

\* number of target entries of a job, over all its blocks
RECURSIVE CountBlocks(_, _)
CountBlocks(blocks, k) ==
    IF k > Len(blocks) THEN 0 ELSE Len(blocks[k].targets) + CountBlocks(blocks, k + 1)

\* number of target entries of a list of jobs
RECURSIVE CountTargets(_, _)
CountTargets(jobs, i) ==
    IF i > Len(jobs) THEN 0
    ELSE CountBlocks(jobs[i].static_configs, 1) + CountTargets(jobs, i + 1)

\* C11: after remove_scrape_target(ip, port, job_name) has returned true, ip:port
\* is no target of the named job, the job entry is dropped exactly when the job
\* has no target left in any of its blocks, and every other target and every
\* other job of the document is still there.
C11_RemoveFrame ==
    (lastOp.op = "remove" /\ lastOp.ret = "true") =>
        LET n == lastOp.job_name
            t == lastOp.target
            left == TargetsOfJob(preFile, n) \ {t}
        IN  /\ t \notin TargetsOfJob(cfgFile, n)
            /\ (n \in JobNamesOf(cfgFile)) <=> (left # {})
            /\ TargetsOfJob(cfgFile, n) = left
            /\ \A m \in JobNames \ {n} :
                  /\ (m \in JobNamesOf(cfgFile)) <=> (m \in JobNamesOf(preFile))
                  /\ TargetsOfJob(cfgFile, m) = TargetsOfJob(preFile, m)

\* C12: remove_scrape_target returns false and changes nothing (the config file
\* is not rewritten, no backup is made) whenever the named job does not exist
\* or the target is not in that job.
C12_RemoveNoOp ==
    ( /\ lastOp.op = "remove"
      /\ \/ lastOp.job_name \notin JobNamesOf(preFile)
         \/ lastOp.target \notin TargetsOfJob(preFile, lastOp.job_name) )
    => /\ lastOp.ret = "false"
       /\ lastOp.save = "none"
       /\ cfgFile = preFile

\* C12 witness: remove_scrape_target was called on an existing file for a job
\* that exists and does not hold the target, and has returned false.
C12_Witness ==
    /\ lastOp.op = "remove"
    /\ lastOp.ret = "false"
    /\ FileExists(preFile)
    /\ lastOp.job_name \in JobNamesOf(preFile)
    /\ TargetsOfJob(preFile, lastOp.job_name) # {}
    /\ lastOp.target \notin TargetsOfJob(preFile, lastOp.job_name)

\* C13: save_config does not overwrite an existing config file before a backup
\* holding the file's content has been written.  If the backup copy fails the
\* file is untouched and the call returns false; if the overwrite fails after
\* the backup, the backup holds the content from before the call and the call
\* returns false.
C13_BackupBeforeOverwrite ==
    /\ (lastOp.save = "backup_fail") => (cfgFile = preFile /\ lastOp.ret = "false")
    /\ (lastOp.save \in {"open_fail", "dump_fail"}) => lastOp.ret = "false"
    /\ (lastOp.save \in {"ok", "open_fail", "dump_fail"} /\ FileExists(preFile))
          => (now \in DOMAIN backups /\ backups[now] = preFile)
    /\ (lastOp.save = "open_fail") => cfgFile = preFile
    /\ (cfgFile # preFile /\ FileExists(preFile))
          => (now \in DOMAIN backups /\ backups[now] = preFile)

\* C13 witness: yaml.dump failed after the backup of an existing file: the file
\* is truncated and the backup holds the content from before the call.
C13_Witness ==
    /\ lastOp.save = "dump_fail"
    /\ preFile.kind = "yaml"
    /\ cfgFile = EmptyFile
    /\ now \in DOMAIN backups
    /\ backups[now] = preFile

\* C20: upsert merge rule.  When add_scrape_target returns true: if a job with
\* the given job_name existed and held the target in none of its blocks, the
\* target has been appended to the first block of that job, the number of jobs
\* is unchanged and the number of target entries has grown by one; if no job
\* had that name, one new job with one block holding that single target has
\* been appended.
C20_UpsertMergeRule ==
    (lastOp.op = "add" /\ lastOp.ret = "true") =>
        LET pre == Jobs(preFile)
            post == Jobs(cfgFile)
            i == JobIndex(pre, lastOp.job_name)
        IN  IF i = 0
            THEN /\ Len(post) = Len(pre) + 1
                 /\ \A k \in 1..Len(pre) : post[k] = pre[k]
                 /\ post[Len(post)].job_name = lastOp.job_name
                 /\ Len(post[Len(post)].static_configs) = 1
                 /\ post[Len(post)].static_configs[1].targets = <<lastOp.target>>
            ELSE BlocksHolding(pre[i], lastOp.target) = 0 =>
                 /\ Len(post) = Len(pre)
                 /\ \A k \in 1..Len(pre) : k # i => post[k] = pre[k]
                 /\ post[i].static_configs[1].targets =
                        Append(pre[i].static_configs[1].targets, lastOp.target)
                 /\ CountTargets(post, 1) = CountTargets(pre, 1) + 1

\* C20 witness: add_scrape_target has returned true for a job that existed with
\* two blocks and held the target in neither.
C20_Witness ==
    /\ lastOp.op = "add"
    /\ lastOp.ret = "true"
    /\ LET i == JobIndex(Jobs(preFile), lastOp.job_name)
       IN  /\ i # 0
           /\ Len(Jobs(preFile)[i].static_configs) = 2
           /\ BlocksHolding(Jobs(preFile)[i], lastOp.target) = 0
           /\ BlocksHolding(Jobs(cfgFile)[i], lastOp.target) = 1

\* C27: frame of add_scrape_target.  When add_scrape_target returns true, the
\* saved document has the global settings of the loaded one; every job of
\* the loaded document is at its position, and a job with another job_name is
\* unchanged; the matched job keeps its scheme, its blocks with their labels,
\* and in every block the targets it had, in their order.
C27_AddFrame ==
    (lastOp.op = "add" /\ lastOp.ret = "true") =>
        LET loaded == load_config(preFile)
            saved == load_config(cfgFile)
            pre == loaded.scrape_configs
            post == saved.scrape_configs
            i == JobIndex(pre, lastOp.job_name)
        IN  /\ saved.global = loaded.global
            /\ Len(post) >= Len(pre)
            /\ \A k \in 1..Len(pre) :
                  /\ post[k].job_name = pre[k].job_name
                  /\ pre[k].job_name # lastOp.job_name => post[k] = pre[k]
            /\ i # 0 =>
                  /\ post[i].scheme = pre[i].scheme
                  /\ Len(post[i].static_configs) = Len(pre[i].static_configs)
                  /\ \A b \in 1..Len(pre[i].static_configs) :
                        /\ post[i].static_configs[b].labels = pre[i].static_configs[b].labels
                        /\ Len(pre[i].static_configs[b].targets)
                              <= Len(post[i].static_configs[b].targets)
                        /\ SubSeq(post[i].static_configs[b].targets, 1,
                                  Len(pre[i].static_configs[b].targets))
                              = pre[i].static_configs[b].targets

\* C27 witness: add_scrape_target has returned true and has appended a target
\* to a job with two blocks that stands next to a job with another name.
C27_Witness ==
    /\ lastOp.op = "add"
    /\ lastOp.ret = "true"
    /\ Len(Jobs(preFile)) = 2
    /\ JobIndex(Jobs(preFile), lastOp.job_name) # 0
    /\ Len(Jobs(preFile)[JobIndex(Jobs(preFile), lastOp.job_name)].static_configs) = 2
    /\ Jobs(cfgFile) # Jobs(preFile)

\* C28: backups accumulate.  No call of the manager overwrites or removes a
\* backup that an earlier save_config has written, also when two saves read
\* the clock within the same second; and a save_config that overwrites an
\* existing file leaves a backup with the content the file had before.
C28_BackupsAccumulate ==
    [][ /\ \A t \in DOMAIN backups : t \in DOMAIN backups' /\ backups'[t] = backups[t]
        /\ (cfgFile' # cfgFile /\ FileExists(cfgFile)) =>
              \E t \in DOMAIN backups' : backups'[t] = cfgFile ]_vars

(***************************************************************************)
(* Claims about the installation attempts (Spec, SpecRace).                *)
(***************************************************************************)
\* the attempt of thread a has entered run_ansible_playbook and has ended
Ended(a) == pc[a] = "done" /\ response[a].via # "validate"

\* target is a target of some job of the document a reader of f gets
HasTarget(f, target) ==
    \E i \in 1..Len(Jobs(f)) : BlocksHolding(Jobs(f)[i], target) >= 1

\* the Invoking step of thread a has failed
InvokeFailed(a) == trace[a].invoke \in {"timeout", "not_found", "oserror", "exit2"}

\* C1: for every installation attempt and every path by which it ends, when
\* the attempt has ended neither its variables temp file nor its dynamic
\* inventory temp file exists any more.
C1_TempFilesGoneAtEnd ==
    \A a \in Threads :
        Ended(a) => att[a].vars_file = "absent" /\ att[a].inv_file = "absent"

\* C2: for every interleaving of two attempts that upsert two distinct targets
\* and both report prometheus_updated = true, the final config document
\* contains both targets.
C2_NoLostUpsert ==
    ( /\ \A a \in Threads : Ended(a) /\ response[a].prometheus_updated
      /\ att["A"].node_info.info.target # att["B"].node_info.info.target )
    => \A a \in Threads : HasTarget(cfgFile, att[a].node_info.info.target)

\* C3: when the Invoking step fails (timeout, installer not found, non-zero
\* exit code), no artifact candidate is read, add_scrape_target and
\* reload_prometheus are not called, the config file and its backup directory
\* are unchanged, and the result has success = false and
\* prometheus_updated = false.
C3_InvokeFailureSkipsIntegration ==
    \A a \in Threads :
        InvokeFailed(a) =>
            /\ ~trace[a].artifact_read
            /\ ~trace[a].add_called
            /\ ~trace[a].save_called
            /\ ~trace[a].reload_called
            /\ pc[a] \notin {"search", "load", "save", "dump", "reload"}
            /\ cfgFile = preFile
            /\ backups = NoBackups
            /\ pc[a] = "done" => /\ ~response[a].success
                                 /\ ~response[a].prometheus_updated

\* C3 witness: an attempt that asked for config integration has ended after a
\* non-zero exit, and a valid artifact lies unread in the first candidate.
C3_Witness ==
    /\ pc["A"] = "done"
    /\ trace["A"].invoke = "exit2"
    /\ att["A"].prometheus_config
    /\ artifacts[1].kind = "valid"

\* C4: if the installer exits 0 and the config-integration step fails in any
\* way (artifact missing, oversized or malformed, add_scrape_target raising or
\* returning false), the attempt returns success = true and
\* prometheus_updated = false.
C4_IntegrationFailureKeepsSuccess ==
    \A a \in Threads :
        ( /\ pc[a] = "done"
          /\ trace[a].invoke = "exit0"
          /\ trace[a].integration \in {"no_artifact", "read_raised", "add_raised", "save_false"} )
        => response[a].success /\ ~response[a].prometheus_updated

C6_SkippedWithoutTargetOrIntegration ==
    \A a \in Threads :
        (req[a].target_host = <<>> \/ ~req[a].prometheus_enabled)
        => /\ ~trace[a].artifact_read
           /\ ~trace[a].add_called
           /\ ~response[a].prometheus_updated

\* C6 amended: no artifact candidate is read, no config update is attempted and
\* prometheus_updated = false whenever config integration was not requested,
\* even if the installer exits 0 (line 508 tests the return code and
\* prometheus_config, not the target host).
C6_SkippedWithoutIntegration ==
    \A a \in Threads :
        ~req[a].prometheus_enabled
        => /\ ~trace[a].artifact_read
           /\ ~trace[a].add_called
           /\ ~trace[a].save_called
           /\ pc[a] \notin {"search", "load", "save", "dump", "reload"}
           /\ ~response[a].prometheus_updated

\* C6 witness: an attempt that did not ask for config integration has ended
\* after exit code 0, and a valid artifact lies unread in the first candidate.
C6_Witness ==
    /\ pc["A"] = "done"
    /\ trace["A"].invoke = "exit0"
    /\ ~req["A"].prometheus_enabled
    /\ response["A"].success
    /\ artifacts[1].kind = "valid"

\* C7: when the installer exceeds the wall-clock deadline, the attempt returns
\* success = false, returncode = -1, prometheus_updated = false and an error
\* message saying that the process may still be running.
C7_TimeoutResult ==
    \A a \in Threads :
        (trace[a].invoke = "timeout" /\ pc[a] \in {"cleanup", "done"})
        => /\ ~response[a].success
           /\ response[a].returncode = -1
           /\ ~response[a].prometheus_updated
           /\ response[a].error =
                "Installation timed out after 10 minutes. The process may still be running."

\* C7 witness: an attempt whose installer ran into the deadline has ended.
C7_Witness == pc["A"] = "done" /\ trace["A"].invoke = "timeout"

\* C14: a load_config that runs while another attempt is in save_config returns
\* a complete document: the document from before that save (here the default
\* document of the missing file) or the document that the other attempt has
\* saved, never an empty or partial one.
C14_LoadSeesCompleteDocument ==
    \A a \in Threads :
        trace[a].add_called =>
            \/ att[a].config = load_config(preFile)
            \/ \E b \in Threads \ {a} : trace[b].saved /\ att[a].config = att[b].merged

\* C15: each attempt owns its files.  While an attempt that has written
\* ansible.cfg is looking for, starting or running its installer, the file
\* exists; and the result artifact that an attempt reads as its own is the one
\* its own installer wrote.
C15_IndependentFiles ==
    \A a \in Threads :
        /\ pc[a] \in {"find", "spawn", "running"} => ansibleCfg
        /\ att[a].node_info.kind = "valid" => att[a].node_info.info = InfoOf(a)

\* C16: in the result of every attempt that returns, error is present exactly
\* when success is false: an attempt that ends regularly after exit code 0
\* has no error, and after a non-zero exit, a timeout or an internal exception
\* error is a non-empty message and success is false.
C16_ErrorIffFailure ==
    \A a \in Threads :
        pc[a] \in {"cleanup", "done"} =>
            /\ (response[a].error # NullError) <=> ~response[a].success
            /\ response[a].error # ""
            /\ (response[a].error_lines # <<>>) => ~response[a].success
            /\ (response[a].via = "return" /\ trace[a].invoke = "exit0")
                  => (response[a].success /\ response[a].error = NullError)
            /\ (\/ trace[a].invoke \in {"exit2", "timeout", "not_found", "oserror"}
                \/ response[a].via \in {"except", "handler"})
                  => (~response[a].success /\ response[a].error # NullError)
            /\ (response[a].via = "return" /\ trace[a].invoke = "exit2")
                  => (response[a].error_lines # <<>> /\ response[a].error_lines[1] # LineBlank)

\* C16 witness: an attempt has ended after exit code 0 with output on stdout
\* and deprecation lines on stderr, and its result has success = true and no
\* error.
C16_Witness ==
    /\ pc["A"] = "done"
    /\ trace["A"].invoke = "exit0"
    /\ response["A"].success
    /\ response["A"].error = NullError
    /\ response["A"].stderr_full # <<>>

\* C17: when the inputs are invalid or no installer executable is found, the
\* attempt has spawned no process and has created or left behind no file: no
\* inventory, no variables file, no ansible.cfg.
C17_AbortBeforeSideEffects ==
    \A a \in Threads :
        (pc[a] = "done" /\ (response[a].via = "validate" \/ trace[a].invoke = "not_found"))
        => /\ ~trace[a].spawned
           /\ ~trace[a].inventory_written
           /\ ~trace[a].vars_written
           /\ ~trace[a].cfg_written
           /\ att[a].inv_file = "absent"
           /\ att[a].vars_file = "absent"
           /\ ~ansibleCfg

\* the scenario of C18: os windows, host 10.0.0.5, user admin, secret p@ss, and
\* the inventory file has been written
WindowsScenario(a) ==
    /\ Lower(req[a].os) = "windows"
    /\ req[a].target_host = HostIPv4
    /\ req[a].target_username = UserAdmin
    /\ req[a].target_password = SecretAt
    /\ att[a].dynamic_inventory

\* C18 as stated: in the scenario the inventory uses WinRM on port 5985, holds
\* no ansible_become setting, and carries the secret wrapped in quotes.
C18_WindowsInventoryAsStated ==
    \A a \in Threads :
        WindowsScenario(a) =>
            /\ att[a].inventory.group = "windows"
            /\ att[a].inventory.settings.ansible_connection = "winrm"
            /\ att[a].inventory.settings.ansible_port = "5985"
            /\ "ansible_become" \notin DOMAIN att[a].inventory.settings
            /\ att[a].inventory.password = Quoted(SecretAt)

\* C18 amended: in the scenario the inventory uses WinRM on port 5985, sets
\* ansible_become=false, and carries the secret p@ss as it is, without quotes
\* ('@' is not one of the characters escape_ansible_value quotes for).
C18_WindowsInventory ==
    \A a \in Threads :
        WindowsScenario(a) =>
            /\ att[a].inventory.group = "windows"
            /\ att[a].inventory.settings.ansible_connection = "winrm"
            /\ att[a].inventory.settings.ansible_port = "5985"
            /\ att[a].inventory.settings.ansible_become = "false"
            /\ "ansible_become_pass" \notin DOMAIN att[a].inventory.settings
            /\ att[a].inventory.password = SecretAt

\* C18 witness: the inventory of the scenario has been written.
C18_Witness == WindowsScenario("A") /\ trace["A"].inventory_written

\* number of positions of seq that hold a line of the set S
CountIn(seq, S) == Cardinality({i \in 1..Len(seq) : seq[i] \in S})

UnreachableLines == {LineUnreachable, LineUnreachableBare}
DeprecationLines == {LineDeprecation1, LineDeprecation2}

\* the scenario of C19: the installer has exited with code 2, has printed
\* nothing on stdout, and its stderr holds one UNREACHABLE! line and two
\* deprecation lines
UnreachableScenario(a) ==
    /\ pc[a] \in {"cleanup", "done"}
    /\ response[a].via = "return"
    /\ response[a].returncode = 2
    /\ response[a].stdout_full = <<>>
    /\ CountIn(response[a].stderr_full, UnreachableLines) = 1
    /\ CountIn(response[a].stderr_full, DeprecationLines) = 2
    /\ CountIn(response[a].stderr_full, OutputLines \ {LineBlank}) = 3

\* C19 as stated: in the scenario the extracted error message is the
\* UNREACHABLE! line alone, and neither the error message nor the displayed
\* stderr holds a deprecation line.
C19_UnreachableErrorAsStated ==
    \A a \in Threads :
        UnreachableScenario(a) =>
            /\ Len(response[a].error_lines) = 1
            /\ response[a].error_lines[1] \in UnreachableLines
            /\ CountIn(response[a].error_lines, DeprecationLines) = 0
            /\ CountIn(response[a].stderr, DeprecationLines) = 0

\* C19 amended: in the scenario the extracted error message is the
\* UNREACHABLE! line alone and holds no deprecation line; the displayed stderr
\* is the stderr of the process with both deprecation lines, which are
\* filtered only when the exit code is 0.
C19_UnreachableError ==
    \A a \in Threads :
        UnreachableScenario(a) =>
            /\ response[a].error = ExtractedError
            /\ Len(response[a].error_lines) = 1
            /\ response[a].error_lines[1] \in UnreachableLines
            /\ CountIn(response[a].error_lines, DeprecationLines) = 0
            /\ response[a].stderr = response[a].stderr_full
            /\ CountIn(response[a].stderr, DeprecationLines) = 2

\* C19 witness: the scenario with an UNREACHABLE! line that holds none of the
\* keywords, so that the message comes from the fallback of lines 594-598.
C19_Witness ==
    /\ UnreachableScenario("A")
    /\ pc["A"] = "done"
    /\ CountIn(response["A"].stderr_full, {LineUnreachableBare}) = 1


\* C21: artifact selection consumes the first usable candidate. When the loop
\* over the candidate locations has ended, the attempt holds the content and
\* the path of the first candidate that exists, is at most 1MB and parses as
\* JSON, also when an earlier candidate is oversized or malformed; it holds
\* none only when there is no such candidate.
C21_FirstUsableCandidateConsumed ==
    LET usable == {p \in Candidates : artifacts[p].kind \in {"valid", "empty"}}
        SearchEnded(a) ==
            /\ pc[a] \in {"load", "finish", "cleanup"}
            /\ trace[a].integration \in {"found", "no_artifact", "read_raised"}
    IN  \A a \in Threads :
            SearchEnded(a) =>
                IF usable = {}
                THEN att[a].node_info_path = 0
                ELSE LET first == CHOOSE p \in usable : \A q \in usable : p <= q
                     IN  /\ att[a].node_info_path = first
                         /\ att[a].node_info = artifacts[first]

\* C22: error extraction after a non-zero exit. The message is made of the
\* last three lines of the combined output that hold a keyword and no
\* 'deprecation', in output order and without surrounding whitespace; when no
\* line matches it is the last non-blank line without 'deprecation'; when
\* there is none it is the synthesized message that names the return code.
C22_ErrorExtraction ==
    \A a \in Threads :
        ( /\ pc[a] \in {"cleanup", "done"}
          /\ response[a].via = "return"
          /\ response[a].returncode # 0 ) =>
            LET lines == OutputLinesOf(response[a].stdout_full, response[a].stderr_full)
                M == {i \in 1..Len(lines) :
                        HasKeyword(lines[i]) /\ ~HasDeprecationLower(lines[i])}
                P == {i \in 1..Len(lines) :
                        StripLine(lines[i]) # LineBlank /\ ~HasDeprecationLower(lines[i])}
                msg == response[a].error_lines
            IN  IF M # {}
                THEN /\ Len(msg) = IF Cardinality(M) < 3 THEN Cardinality(M) ELSE 3
                     /\ \E f \in [1..Len(msg) -> M] :
                           /\ \A j, k \in 1..Len(msg) : j < k => f[j] < f[k]
                           /\ \A i \in M : (\A k \in 1..Len(msg) : f[k] # i) => i < f[1]
                           /\ \A k \in 1..Len(msg) : msg[k] = StripLine(lines[f[k]])
                ELSE IF P # {}
                THEN LET last == CHOOSE i \in P : \A j \in P : j <= i
                     IN  msg = <<StripLine(lines[last])>>
                ELSE /\ msg = <<"Ansible playbook failed with return code 2">>
                     /\ response[a].returncode = 2

\* C22 witness: the installer has exited with code 2, its output holds four
\* keyword lines and a deprecation line with a keyword, and the message is
\* made of the last three keyword lines.
C22_Witness ==
    /\ pc["A"] = "done"
    /\ response["A"].via = "return"
    /\ response["A"].returncode = 2
    /\ response["A"].stdout_full = <<LineTaskFailed, LineIndented, LineRecap>>
    /\ response["A"].stderr_full =
          <<LineUnreachable, LineDeprecationError, LineUnable, LineSpaces>>
    /\ response["A"].error_lines =
          <<"msg: error: connection refused", LineUnreachable, LineUnable>>

\* C23: secret-bearing temp files are zeroed before the unlink. When the
\* finally block unlinks the variables file or the dynamic inventory and the
\* overwrite has not failed, the file has the length it was written with and
\* every byte of it is zero.
C23_ZeroedBeforeUnlink ==
    \A a \in Threads :
        /\ (trace[a].vars_unlinked.unlinked /\ trace[a].vars_unlinked.overwrite = "ok") =>
              /\ trace[a].vars_unlinked.size = att[a].vars_size
              /\ trace[a].vars_unlinked.zeros = trace[a].vars_unlinked.size
        /\ (trace[a].inv_unlinked.unlinked /\ trace[a].inv_unlinked.overwrite = "ok") =>
              /\ trace[a].inv_unlinked.size = att[a].inv_size
              /\ trace[a].inv_unlinked.zeros = trace[a].inv_unlinked.size


\* C24: ansible.cfg is a temporary artifact of the attempt. When an attempt
\* that has written ansible.cfg has returned, by whatever path (exit 0,
\* non-zero exit, timeout, installer not found, other exception), the file
\* does not exist.
C24_AnsibleCfgGoneAtEnd ==
    \A a \in Threads :
        (pc[a] = "done" /\ trace[a].cfg_written) => ~ansibleCfg


\* a reader of the descriptor inside a double-quoted value: a backslash takes
\* the quote or backslash after it literally, a quote ends the value.
\* [ok, value, rest]
RECURSIVE ReadQuoted(_, _)
ReadQuoted(s, acc) ==
    IF s = <<>> THEN [ok |-> FALSE, value |-> acc, rest |-> <<>>]
    ELSE IF Head(s) = "\"" THEN [ok |-> TRUE, value |-> acc, rest |-> Tail(s)]
    ELSE IF Head(s) = "\\" /\ Len(s) >= 2 /\ s[2] \in {"\"", "\\"}
    THEN ReadQuoted(Tail(Tail(s)), Append(acc, s[2]))
    ELSE ReadQuoted(Tail(s), Append(acc, Head(s)))

\* C25: every value of the inventory is escaped so that the host entry is one
\* directive. In every inventory written, host, user and secret that hold a
\* structural character are in double quotes with embedded quotes and
\* backslashes escaped (a reader of the quoted value gets the raw value
\* back), and for every secret the host entry is a single line.
C25_EscapedEntryOneLine ==
    LET ReadsBackAs(escaped, raw) ==
            IF \E i \in 1..Len(raw) : raw[i] \in SpecialChars
            THEN /\ escaped # <<>>
                 /\ Head(escaped) = "\""
                 /\ ReadQuoted(Tail(escaped), <<>>) =
                        [ok |-> TRUE, value |-> raw, rest |-> <<>>]
            ELSE escaped = raw
        OneLine(entry) == \A i \in 1..Len(entry) : entry[i] # "\n"
    IN  \A a \in Threads :
            (att[a].dynamic_inventory /\ trace[a].inventory_written) =>
                /\ ReadsBackAs(att[a].inventory.password, att[a].extra_vars.target_password)
                /\ ReadsBackAs(att[a].inventory.host,
                               sanitize_hostname(att[a].extra_vars.target_host).value)
                /\ ReadsBackAs(att[a].inventory.user,
                               sanitize_username(att[a].extra_vars.target_username).value)
                /\ OneLine(att[a].inventory.host \o att[a].inventory.user
                             \o att[a].inventory.password)

\* C26: reload follows a saved config and does not undo prometheus_updated.
\* An attempt posts to the reload endpoint only after its installer has
\* exited 0 and its add_scrape_target has returned true; the result of every
\* ended attempt has prometheus_updated true exactly when add_scrape_target
\* returned true, whatever the reload met; and reload_prometheus of a manager
\* without an endpoint sends no request and returns false.
C26_ReloadAfterSave ==
    /\ \A a \in Threads :
          /\ trace[a].reload_called => (trace[a].saved /\ trace[a].invoke = "exit0")
          /\ trace[a].reload_posted => trace[a].reload_called
          /\ pc[a] \in {"cleanup", "done"} =>
                (response[a].prometheus_updated <=> trace[a].saved)
    /\ (lastOp.op = "reload" /\ ~lastOp.reload_api) =>
          (~lastOp.posted /\ lastOp.ret = "false")
    /\ (lastOp.op = "reload" /\ lastOp.posted) => lastOp.reload_api

\* C26 witness: an attempt has ended with prometheus_updated true although
\* its reload request got a status other than 200, and a manager without an
\* endpoint has been asked to reload.
C26_Witness ==
    /\ pc["A"] = "done"
    /\ trace["A"].reload_posted
    /\ trace["A"].reload = "500"
    /\ response["A"].prometheus_updated
    /\ lastOp.op = "reload"
    /\ ~lastOp.reload_api


\* C29: an artifact file is registered by at most one attempt.  No two
\* attempts call add_scrape_target with the node_info of the same artifact
\* file, in any interleaving of the attempts.
C29_ArtifactRegisteredOnce ==
    \A a, b \in Threads :
        (a # b /\ trace[a].add_called /\ trace[b].add_called) =>
            att[a].node_info # att[b].node_info


\* C30: the rate limit.  For each client at most 100 admitted requests fall
\* into any window of 60 seconds, and a request is answered 429 exactly when
\* 100 admitted requests of its client are younger than 60 seconds.
C30_RateLimit ==
    LET InWindow(times, t) ==
            Cardinality({i \in 1..Len(times) :
                            t <= times[i] /\ times[i] < t + rate_limit_window})
    IN  /\ \A c \in Clients : \A i \in 1..Len(rl.admitted[c]) :
              InWindow(rl.admitted[c], rl.admitted[c][i]) <= rate_limit_max_requests
        /\ \A a \in Threads :
              /\ rl.verdict[a].status = 429 =>
                    rl.verdict[a].young >= rate_limit_max_requests
              /\ rl.verdict[a].status = 200 =>
                    rl.verdict[a].young < rate_limit_max_requests

====
